---- MODULE Spec2Model ----
(***************************************************************************)
(* Model of the Appy field declaration layer (src/fields/__init__.py):     *)
(* Page, Phase, Group, Column, UiGroup and the validation / visibility     *)
(* methods of Field.                                                       *)
(*                                                                         *)
(* Python values are records tagged by their type in field t.  Python      *)
(* strings are sequences of one-character strings, so that rsplit,         *)
(* indexing, the "in" operator, int() and the "%" formatting are computed  *)
(* character by character, as the interpreter does.                        *)
(***************************************************************************)
EXTENDS Integers, Sequences, FiniteSets, TLC

VARIABLES
  field,    \* the Field instance under consideration (after Field.__init__)
  request,  \* obj.REQUEST: request value of every master field
  allowed,  \* the permissions for which obj.allows(perm) is true
  last,     \* the last call made: operation, arguments, outcome, hooks run
  phases,   \* the Phase instances, in the order of the list allPhases
  uiGroups, \* the dict that maps the name of a group to its UiGroup
  fields    \* the list of the top-level elements shown in a page

vars == <<field, request, allowed, last, phases, uiGroups, fields>>

----------------------------------------------------------------------------
(* Bounds of the model. *)

\* Number of pieces concatenated to build a string given to validate.
MaxPieces == 2
\* Maximal number of items of a list found in the request.
MaxList == 2
\* Number of pieces concatenated to build the data of a page or of a group.
MaxParts == 3
\* Maximal number of columns given to a group.
MaxColumns == 3
\* Maximal number of phases.
MaxPhases == 2
\* Maximal number of fields and groups put into a UiGroup by addField.
MaxCells == 2

----------------------------------------------------------------------------
(* Python values. *)

PyNone == [t |-> "None"]
PyBool(b) == [t |-> "bool", b |-> b]
PyInt(n) == [t |-> "int", n |-> n]
PyStr(s) == [t |-> "str", s |-> s]
PyList(xs) == [t |-> "list", items |-> xs]
PyTuple(xs) == [t |-> "tuple", items |-> xs]

\* The outcome of a call: a returned value or a raised exception.
Returned(v) == [t |-> "return", v |-> v]
Raised(e) == [t |-> "raise", exc |-> e]

\* What a function given by the application does when it raises: the class
\* of the exception and its text, str(e).
Throws(cls, msg) ==
  [t |-> "raise", cls |-> cls, str |-> [t |-> "return", v |-> [t |-> "str", s |-> msg]]]

\* An exception of class cls built on a unicode message that holds a
\* character outside ASCII: str(e) raises UnicodeEncodeError.
ThrowsUnicode(cls) ==
  [t |-> "raise", cls |-> cls, str |-> [t |-> "raise", exc |-> "UnicodeEncodeError"]]

\* The base of each class that is raised: the built-in ones, and classes of
\* the application: MyTypeError derives from TypeError, MyError from
\* Exception, MyBase from BaseException, and OldStyle is an old-style class,
\* without base.
ClassBase ==
  [BaseException |-> "object", Exception |-> "BaseException",
   KeyboardInterrupt |-> "BaseException", SystemExit |-> "BaseException",
   GeneratorExit |-> "BaseException", StandardError |-> "Exception",
   TypeError |-> "StandardError", ValueError |-> "StandardError",
   NameError |-> "StandardError", AttributeError |-> "StandardError",
   LookupError |-> "StandardError", KeyError |-> "LookupError",
   IndexError |-> "LookupError", ArithmeticError |-> "StandardError",
   ZeroDivisionError |-> "ArithmeticError", UnicodeError |-> "ValueError",
   UnicodeEncodeError |-> "UnicodeError", MyTypeError |-> "TypeError",
   MyError |-> "Exception", MyBase |-> "BaseException", OldStyle |-> "classobj"]

RECURSIVE IsSubclass(_, _)
\* issubclass(cls, base)
IsSubclass(cls, base) ==
  \/ cls = base
  \/ cls \in DOMAIN ClassBase /\ IsSubclass(ClassBase[cls], base)

\* isinstance(e, Exception), for an exception e of class cls: what
\* 'except Exception' catches.
IsException(cls) == IsSubclass(cls, "Exception")

\* Python's truth value of v, as tested by "if v" and "not v".
Truthy(v) ==
  CASE v.t = "None" -> FALSE
    [] v.t = "bool" -> v.b
    [] v.t = "int" -> v.n # 0
    [] v.t = "str" -> Len(v.s) > 0
    [] v.t \in {"list", "tuple"} -> Len(v.items) > 0
    [] OTHER -> TRUE

IsBasestring(v) == v.t = "str"

\* type(v) in sutils.sequenceTypes
IsSequenceType(v) == v.t \in {"list", "tuple"}

\* Some literal strings of the source.
S_main == <<"m", "a", "i", "n">>
S_view == <<"v", "i", "e", "w">>
S_edit == <<"e", "d", "i", "t">>
S_result == <<"r", "e", "s", "u", "l", "t">>
S_cell == <<"c", "e", "l", "l">>
S_left == <<"l", "e", "f", "t">>
S_True == <<"T", "r", "u", "e">>
S_False == <<"F", "a", "l", "s", "e">>
S_100pct == <<"1", "0", "0", "%">>
S_script == <<"<", "s", "c", "r", "i", "p", "t">>

Digits == <<"0", "1", "2", "3", "4", "5", "6", "7", "8", "9">>
IsDigit(c) == \E i \in 1..10 : Digits[i] = c
DigitValue(c) == (CHOOSE i \in 1..10 : Digits[i] = c) - 1

\* needle in s, for two strings.
Contains(s, needle) ==
  \E i \in 1..(Len(s) - Len(needle) + 1) :
    SubSeq(s, i, i + Len(needle) - 1) = needle

\* s.rsplit(sep, 1) for a one-character separator.
LastIndexOf(s, c) ==
  IF \E i \in 1..Len(s) : s[i] = c
  THEN CHOOSE i \in 1..Len(s) : s[i] = c /\ \A j \in (i+1)..Len(s) : s[j] # c
  ELSE 0

RSplit1(s, c) ==
  LET i == LastIndexOf(s, c)
  IN  IF i = 0 THEN <<s>> ELSE <<SubSeq(s, 1, i - 1), SubSeq(s, i + 1, Len(s))>>

\* s[i] with a Python (0-based) index: the character, or IndexError.
CharAt(s, i) ==
  IF i + 1 <= Len(s) THEN Returned(PyStr(<<s[i + 1]>>)) ELSE Raised("IndexError")

----------------------------------------------------------------------------
(* Page *)

\* Page.__init__
PageInit(name, phase) ==
  [t |-> "Page", name |-> name, phase |-> phase, show |-> PyBool(TRUE),
   showSave |-> PyBool(TRUE), showCancel |-> PyBool(TRUE),
   showPrevious |-> PyBool(TRUE), showNext |-> PyBool(TRUE),
   showEdit |-> PyBool(TRUE)]

\* Page.get where a string that holds an underscore is handed back as it is.
PageGetNoPage(pageData) ==
  IF Truthy(pageData) /\ IsBasestring(pageData)
     /\ Len(RSplit1(pageData.s, "_")) = 1
  THEN Returned(PageInit(pageData, PyStr(S_main)))
  ELSE Returned(pageData)

\* Page.get
PageGet(pageData) ==
  IF Truthy(pageData) /\ IsBasestring(pageData)
  THEN LET pageElems == RSplit1(pageData.s, "_")
       IN  IF Len(pageElems) = 1
           THEN Returned(PageInit(pageData, PyStr(S_main)))
           ELSE \* Page(pageData[0], phase=pageData[1])
                LET n == CharAt(pageData.s, 0)
                    p == CharAt(pageData.s, 1)
                IN  IF n.t = "raise" THEN n
                    ELSE IF p.t = "raise" THEN p
                    ELSE Returned(PageInit(n.v, p.v))
  ELSE Returned(pageData)

----------------------------------------------------------------------------
(* Conversions between integers and strings *)

RECURSIVE NatToStr(_)
\* str(n) for n >= 0
NatToStr(n) ==
  IF n < 10 THEN <<Digits[n + 1]>>
  ELSE NatToStr(n \div 10) \o <<Digits[(n % 10) + 1]>>

\* str(n) for an integer
IntToStr(n) == IF n < 0 THEN <<"-">> \o NatToStr(0 - n) ELSE NatToStr(n)

RECURSIVE DigitsToNat(_)
DigitsToNat(s) ==
  IF Len(s) = 0 THEN 0
  ELSE 10 * DigitsToNat(SubSeq(s, 1, Len(s) - 1)) + DigitValue(s[Len(s)])

\* chr(11), the vertical tab
VerticalTab == ""

\* The characters str.isspace() holds for, which int() skips.
Whitespace == {" ", "\t", "\n", "\r", "\f", VerticalTab}

RECURSIVE LStrip(_)
\* s.lstrip()
LStrip(s) == IF Len(s) > 0 /\ s[1] \in Whitespace THEN LStrip(Tail(s)) ELSE s

RECURSIVE Strip(_)
\* s.strip()
Strip(s) ==
  IF Len(s) > 0 /\ s[1] \in Whitespace THEN Strip(Tail(s))
  ELSE IF Len(s) > 0 /\ s[Len(s)] \in Whitespace
  THEN Strip(SubSeq(s, 1, Len(s) - 1))
  ELSE s

\* int(s) for a string s, as Python 2 reads it: whitespace around is
\* skipped, then an optional sign, whitespace again, and at least one
\* digit; anything else raises ValueError.
PyIntOfStr(s) ==
  LET u == Strip(s)
      signed == Len(u) > 0 /\ u[1] \in {"+", "-"}
      body == IF signed THEN LStrip(Tail(u)) ELSE u
  IN  IF Len(body) > 0 /\ \A i \in 1..Len(body) : IsDigit(body[i])
      THEN Returned(PyInt(IF signed /\ u[1] = "-"
                          THEN 0 - DigitsToNat(body) ELSE DigitsToNat(body)))
      ELSE Raised("ValueError")

RECURSIVE DoublingsMod(_, _, _)
\* (x * 2^n) % m
DoublingsMod(x, n, m) ==
  IF n = 0 THEN x % m ELSE DoublingsMod((2 * x) % m, n - 1, m)

RECURSIVE BinaryExponent(_, _, _)
\* The d for which a * 2^d / b lies in [1, 2), counted from d (a, b > 0).
BinaryExponent(a, b, d) ==
  IF a >= 2 * b THEN BinaryExponent(a, 2 * b, d - 1)
  ELSE IF a < b THEN BinaryExponent(2 * a, b, d + 1)
  ELSE d

\* Where the double a / b lies with respect to the quotient of a by b: the
\* 53 bits of its mantissa are the quotient of a * 2^(52 + d) by b, rounded;
\* the remainder of that division tells which way. 0: the double is the
\* quotient; 1: it lies above; -1: it lies below.
DoubleError(a, b) ==
  LET r == DoublingsMod(a % b, 52 + BinaryExponent(a, b, 0), b)
  IN  IF r = 0 THEN 0 ELSE IF 2 * r > b THEN 1 ELSE 0 - 1

\* The hundredths '%.2f' shows for the double (a / 100.0) / b, a a multiple
\* of 100 (a >= 0, b > 0): the double rounded to the nearest hundredth. When
\* the quotient lies halfway between two hundredths, the double decides: it
\* is rounded to the even one when it is the quotient itself, else to the
\* side on which it lies.
RoundHalfEven(a, b) ==
  LET q == a \div b
      r == a % b
  IN  IF 2 * r < b THEN q
      ELSE IF 2 * r > b THEN q + 1
      ELSE LET side == DoubleError(a \div 100, b)
           IN  IF side > 0 THEN q + 1
               ELSE IF side < 0 THEN q
               ELSE IF q % 2 = 0 THEN q ELSE q + 1

\* '%.2f%%' % (100.0 / nb), for nb # 0
FormatWidth(nb) ==
  LET m == IF nb < 0 THEN 0 - nb ELSE nb
      h == RoundHalfEven(10000, m)
      frac == h % 100
  IN  (IF nb < 0 THEN <<"-">> ELSE <<>>) \o NatToStr(h \div 100) \o <<".">>
      \o <<Digits[(frac \div 10) + 1], Digits[(frac % 10) + 1]>> \o <<"%">>

\* str(v), for the values a masterValue is made of
PyStrOf(v) ==
  CASE v.t = "str" -> v.s
    [] v.t = "bool" -> IF v.b THEN S_True ELSE S_False
    [] v.t = "int" -> IntToStr(v.n)
    [] OTHER -> <<"N", "o", "n", "e">>

\* initMasterValue
initMasterValue(v) ==
  LET res == IF v.t # "bool" /\ ~Truthy(v) THEN <<>>
             ELSE IF ~IsSequenceType(v) THEN <<v>>
             ELSE v.items
  IN  PyList([i \in 1..Len(res) |-> PyStr(PyStrOf(res[i]))])

----------------------------------------------------------------------------
(* Column and Group *)

\* Column.__init__
ColumnInit(width) == [t |-> "Column", width |-> width, align |-> PyStr(S_left)]

\* The default value of Group.__init__'s "columns": one list, shared by all
\* the calls, whose item _setColumns replaces by a Column at the first call.
DefaultColumns == PyList(<<ColumnInit(PyStr(S_100pct))>>)

\* Group._setColumns: the outcome holds the standardized columns. Storing
\* into an item of a tuple raises TypeError.
setColumns(columns) ==
  IF \A i \in 1..Len(columns.items) : columns.items[i].t = "Column"
  THEN Returned(columns)
  ELSE IF columns.t = "tuple" THEN Raised("TypeError")
  ELSE Returned(PyList([i \in 1..Len(columns.items) |->
                  IF columns.items[i].t = "Column" THEN columns.items[i]
                  ELSE ColumnInit(columns.items[i])]))

RECURSIVE GroupInit(_, _, _, _, _, _)
RECURSIVE GroupGet(_)

\* Group.__init__ (the parameters not listed keep their default value)
GroupInit(name, columns, style, group, master, masterValue) ==
  LET cols == setColumns(columns)
      outer == GroupGet(group)
      tabs == style = "tabs"
  IN  IF cols.t = "raise" THEN cols
      ELSE IF outer.t = "raise" THEN outer
      ELSE Returned(
        [t |-> "Group", name |-> name,
         columns |-> IF tabs
                     THEN [cols.v EXCEPT !.items = SubSeq(@, 1, IF Len(@) > 0 THEN 1 ELSE 0)]
                     ELSE cols.v,
         wide |-> PyStr(S_100pct), style |-> style,
         hasLabel |-> ~tabs, hasDescr |-> FALSE, hasHelp |-> FALSE,
         hasHeaders |-> tabs, nbOfHeaders |-> Len(columns.items),
         group |-> outer.v, colspan |-> 1,
         master |-> master, masterValue |-> initMasterValue(masterValue)])

\* Group.get
GroupGet(groupData) ==
  IF Truthy(groupData) /\ IsBasestring(groupData)
  THEN LET groupElems == RSplit1(groupData.s, "_")
       IN  IF Len(groupElems) = 1
           THEN GroupInit(PyStr(groupElems[1]), DefaultColumns, "section2",
                          PyNone, PyNone, PyNone)
           ELSE LET parsed == PyIntOfStr(groupElems[2])
                    nbOfColumns == IF parsed.t = "raise" THEN 1 ELSE parsed.v.n
                IN  IF nbOfColumns = 0 THEN Raised("ZeroDivisionError")
                    ELSE GroupInit(PyStr(groupElems[1]),
                           PyList([i \in 1..nbOfColumns |->
                                     PyStr(FormatWidth(nbOfColumns))]),
                           "section2", PyNone, PyNone, PyNone)
  ELSE Returned(groupData)

RECURSIVE GroupGetMasterData(_)
\* Group.getMasterData
GroupGetMasterData(self) ==
  IF Truthy(self.master) THEN PyTuple(<<self.master, self.masterValue>>)
  ELSE IF Truthy(self.group) THEN GroupGetMasterData(self.group)
  ELSE PyNone

----------------------------------------------------------------------------
(* Field *)

\* nullValues
nullValues == <<PyNone, PyStr(<<>>), PyList(<<>>)>>

\* A master field, known by the name under which its value is in the request.
MasterField(name) == [t |-> "Field", name |-> name]

\* obj.translate(label): the translated message, an opaque non-empty text.
Translate(label) == PyStr(<<label>>)

\* Field.__init__. The parameters not listed play no role in what follows;
\* no specific permission is asked for. The field has no name and no
\* permission yet: Field.init gives them.
FieldInit(validator, multiplicity, show, page, group, master, masterValue) ==
  LET p == PageGet(page)
      g == GroupGet(group)
  IN  IF p.t = "raise" THEN p
      ELSE IF p.v.t # "Page" THEN Raised("AttributeError")
      ELSE IF g.t = "raise" THEN g
      ELSE Returned(
        [t |-> "Field", validator |-> validator, multiplicity |-> multiplicity,
         required |-> multiplicity[1] > 0, show |-> show,
         page |-> p.v, pageName |-> p.v.name, group |-> g.v,
         colspan |-> 1, master |-> master,
         masterValue |-> initMasterValue(masterValue)])

\* Field.init, the secondary constructor called when the application server
\* starts, for a field without specific permissions (the default of
\* specificReadPermission and specificWritePermission, False): it stores the
\* name and the permissions, and does nothing on a field that has a name
\* already. klass and appName feed the ids of the labels only.
init(self, name) ==
  IF "name" \in DOMAIN self THEN self
  ELSE [k \in DOMAIN self \cup {"name", "readPermission", "writePermission"} |->
          IF k = "name" THEN name
          ELSE IF k = "readPermission" THEN "View"
          ELSE IF k = "writePermission" THEN "Modify portal content"
          ELSE self[k]]

\* Field.getRequestValue: request.get(name, None)
getRequestValue(self, req) ==
  IF self.name \in DOMAIN req THEN req[self.name] ELSE PyNone

\* Field.getMasterData where the enclosing groups are not looked at.
getMasterDataOwnOnly(self) ==
  IF Truthy(self.master) THEN PyTuple(<<self.master, self.masterValue>>)
  ELSE PyNone

\* Field.getMasterData
getMasterData(self) ==
  IF Truthy(self.master) THEN PyTuple(<<self.master, self.masterValue>>)
  ELSE IF Truthy(self.group) THEN GroupGetMasterData(self.group)
  ELSE PyNone

\* Field.isClientVisible; falling off the end of the method returns None.
isClientVisible(self, req) ==
  LET masterData == getMasterData(self)
  IN  IF ~Truthy(masterData) THEN PyBool(TRUE)
      ELSE LET master == masterData.items[1]
               masterValue == masterData.items[2]
               reqValue == getRequestValue(master, req)
           IN  IF ~IsSequenceType(reqValue)
               THEN PyBool(\E i \in 1..Len(masterValue.items) :
                             masterValue.items[i] = reqValue)
               ELSE IF \E i \in 1..Len(masterValue.items) :
                         \E j \in 1..Len(reqValue.items) :
                           masterValue.items[i] = reqValue.items[j]
                    THEN PyBool(TRUE)
                    ELSE PyNone

\* Field.isEmptyValue where the empty list is taken for a value.
isEmptyValueNoList(value) == value = PyNone \/ value = PyStr(<<>>)

\* Field.isEmptyValue: value in nullValues
isEmptyValue(value) == \E i \in 1..Len(nullValues) : nullValues[i] = value

\* Field.getStorableValue
getStorableValue(value) == IF isEmptyValue(value) THEN PyNone ELSE value

\* The entry securityCheck writes through obj.log.
ScriptLogEntry == [msg |-> "Detected Javascript in user input.", type |-> "error"]

\* Field.securityCheck where only a value that starts with the tag is caught.
securityCheckPrefixOnly(value) ==
  IF ~IsBasestring(value) THEN [raised |-> FALSE, logged |-> <<>>]
  ELSE IF Len(value.s) >= Len(S_script)
          /\ SubSeq(value.s, 1, Len(S_script)) = S_script
       THEN [raised |-> TRUE, logged |-> <<ScriptLogEntry>>]
       ELSE [raised |-> FALSE, logged |-> <<>>]

\* Field.securityCheck: whether it raises, and what it logs on the object.
securityCheck(value) ==
  IF ~IsBasestring(value) THEN [raised |-> FALSE, logged |-> <<>>]
  ELSE IF Contains(value.s, S_script)
       THEN [raised |-> TRUE, logged |-> <<ScriptLogEntry>>]
       ELSE [raised |-> FALSE, logged |-> <<>>]

\* Field.validate where only an exception of the very class Exception gives
\* its text.
validateCustomExactClass(fn) ==
  IF fn.t = "return"
  THEN IF IsBasestring(fn.v) /\ Truthy(fn.v) THEN Returned(fn.v)
       ELSE IF ~Truthy(fn.v) THEN Returned(Translate("field_invalid"))
       ELSE Returned(PyNone)
  ELSE IF fn.cls = "Exception" THEN fn.str
       ELSE Returned(Translate("field_invalid"))

\* The part of Field.validate that evaluates a custom function: fn is what
\* the call self.validator(obj, value) does, a returned value or a raised
\* exception, with its class and what str(e) does (see Throws). An
\* exception str(e) raises in the handler leaves validate.
validateCustom(fn) ==
  IF fn.t = "return"
  THEN LET validValue == fn.v
       IN  IF IsBasestring(validValue) /\ Truthy(validValue)
           THEN Returned(validValue)
           ELSE IF ~Truthy(validValue)
                THEN Returned(Translate("field_invalid"))
                ELSE Returned(PyNone)
  ELSE IF IsException(fn.cls)
       THEN IF fn.str.t = "return"      \* except Exception, e: str(e)
            THEN Returned(fn.str.v) ELSE Raised(fn.str.exc)
       ELSE Returned(Translate("field_invalid"))   \* bare except

\* The part of Field.validate that applies a regular expression: matched is
\* the result of self.validator.match(value), which accepts strings only.
\* When the value does not match, the first test made to choose the message,
\* self.validator == String.EMAIL, reads the name String, which the module
\* neither defines nor imports: NameError, whatever the validator.
validateRegex(validator, value, matched) ==
  IF ~IsBasestring(value) THEN Raised("TypeError")
  ELSE IF matched THEN Returned(PyNone)
  ELSE Raised("NameError")

\* type(self.validator) in validatorTypes
IsValidatorType(validator) == validator.t \in {"function", "regex"}

\* Field.validate. vv is what validateValue returns for the value, fn what
\* the custom function does and matched whether the regular expression
\* matches. The result holds the outcome, the hooks that ran, in order, and
\* the entries logged on the object.
validate(self, req, value, vv, fn, matched) ==
  IF isEmptyValue(value)
  THEN [out |-> IF self.required /\ Truthy(isClientVisible(self, req))
                THEN Returned(Translate("field_required"))
                ELSE Returned(PyNone),
        calls |-> <<>>, logged |-> <<>>]
  ELSE LET sec == securityCheck(value)
       IN  IF sec.raised
           THEN [out |-> Raised("Exception"), calls |-> <<"securityCheck">>,
                 logged |-> sec.logged]
           ELSE IF Truthy(vv)
           THEN [out |-> Returned(vv),
                 calls |-> <<"securityCheck", "validateValue">>,
                 logged |-> sec.logged]
           ELSE LET stored == getStorableValue(value)
                IN  IF Truthy(self.validator) /\ IsValidatorType(self.validator)
                    THEN IF self.validator.t # "regex"
                         THEN [out |-> validateCustom(fn),
                               calls |-> <<"securityCheck", "validateValue",
                                           "validator">>,
                               logged |-> sec.logged]
                         ELSE [out |-> validateRegex(self.validator, stored, matched),
                               calls |-> <<"securityCheck", "validateValue",
                                           "match">>,
                               logged |-> sec.logged]
                    ELSE [out |-> Returned(PyNone),
                          calls |-> <<"securityCheck", "validateValue">>,
                          logged |-> sec.logged]

\* callable(show)
Callable(v) == v.t = "function"

\* The entry Field.callMethod writes through obj.log: the traceback.
TracebackLogEntry == [msg |-> "Traceback", type |-> "error"]

\* gutils.callMethod(obj, method), nothing being cached yet: the call
\* method(obj). A function is a record: does tells what its body does when
\* it is called with the object alone, withField when it is called with the
\* object and the field. A function without withField has one parameter, a
\* function without does requires the two; a call with the wrong number of
\* arguments raises TypeError and the body does not run. calls tells whether
\* the body ran.
CallWithObj(method) ==
  IF "does" \in DOMAIN method
  THEN [out |-> method.does, calls |-> <<"show">>]
  ELSE [out |-> Raised("TypeError"), calls |-> <<>>]

\* method(obj, self)
CallWithField(method) ==
  IF "withField" \in DOMAIN method
  THEN [out |-> method.withField, calls |-> <<"show">>]
  ELSE [out |-> Raised("TypeError"), calls |-> <<>>]

\* Field.callMethod: the method is called with the object; when that raises
\* a TypeError it is called again with the object and the field, and when
\* that raises an Exception the traceback of the first call is logged and
\* the first error is raised. Another Exception of the first call is logged
\* and raised again. What is raised and is no Exception (KeyboardInterrupt)
\* goes through, unlogged. The result holds the outcome, the runs of the
\* method's body and the entries logged on the object.
callMethod(method) ==
  LET first == CallWithObj(method)
  IN  IF first.out.t = "return"
      THEN [out |-> first.out, calls |-> first.calls, logged |-> <<>>]
      ELSE IF IsSubclass(first.out.exc, "TypeError")
      THEN LET second == CallWithField(method)
           IN  IF second.out.t = "return" \/ ~IsException(second.out.exc)
               THEN [out |-> second.out, calls |-> first.calls \o second.calls,
                     logged |-> <<>>]
               ELSE [out |-> first.out, calls |-> first.calls \o second.calls,
                     logged |-> <<TracebackLogEntry>>]
      ELSE IF IsException(first.out.exc)
      THEN [out |-> first.out, calls |-> first.calls,
            logged |-> <<TracebackLogEntry>>]
      ELSE [out |-> first.out, calls |-> first.calls, logged |-> <<>>]

\* The rest of Field.isShowable, once show is evaluated: shown is what
\* evaluating it gave (see callMethod).
ShownOn(shown, layoutType) ==
  IF shown.out.t = "raise" THEN shown
  ELSE LET res == shown.out.v
           out == IF IsSequenceType(res)
                  THEN \E i \in 1..Len(res.items) : res.items[i] = layoutType
                  ELSE IF res \in {PyStr(S_view), PyStr(S_edit), PyStr(S_result)}
                  THEN res = layoutType
                  ELSE Truthy(res)
       IN  [out |-> Returned(PyBool(out)), calls |-> shown.calls,
            logged |-> shown.logged]

\* Field.isShowable where the read permission is asked for every layout.
isShowableReadPermission(self, perms, layoutType) ==
  IF "readPermission" \notin DOMAIN self
  THEN [out |-> Raised("AttributeError"), calls |-> <<>>, logged |-> <<>>]
  ELSE IF self.readPermission \notin perms
  THEN [out |-> Returned(PyBool(FALSE)), calls |-> <<>>, logged |-> <<>>]
  ELSE ShownOn(IF Callable(self.show) THEN callMethod(self.show)
               ELSE [out |-> Returned(self.show), calls |-> <<>>,
                     logged |-> <<>>],
               layoutType)

\* Field.isShowable. perms are the permissions obj allows. The result holds
\* the outcome, the runs of show and the entries logged on the object. A
\* field Field.init was not called on has no permission attribute.
isShowable(self, perms, layoutType) ==
  IF "readPermission" \notin DOMAIN self
  THEN [out |-> Raised("AttributeError"), calls |-> <<>>, logged |-> <<>>]
  ELSE
  LET perm == IF layoutType = PyStr(S_edit) THEN self.writePermission
              ELSE self.readPermission
  IN  IF perm \notin perms
      THEN [out |-> Returned(PyBool(FALSE)), calls |-> <<>>, logged |-> <<>>]
      ELSE ShownOn(IF Callable(self.show) THEN callMethod(self.show)
                   ELSE [out |-> Returned(self.show), calls |-> <<>>,
                         logged |-> <<>>],
                   layoutType)

----------------------------------------------------------------------------
(* Page.isShowable, Page.getInfo and Phase *)

\* x in xs, for a Python list
InList(x, xs) == \E i \in 1..Len(xs) : xs[i] = x

\* xs.index(x): the 0-based place of the first item equal to x, or ValueError
ListIndex(xs, x) ==
  IF InList(x, xs)
  THEN Returned(PyInt((CHOOSE i \in 1..Len(xs) :
                         xs[i] = x /\ \A j \in 1..(i - 1) : xs[j] # x) - 1))
  ELSE Raised("ValueError")

\* d[k] = v, for a dict d
DictSet(d, k, v) == [x \in DOMAIN d \cup {k} |-> IF x = k THEN v ELSE d[x]]

\* Page.subElements, as the names of the attributes 'show%s' % capitalize()
subElements == <<"showSave", "showCancel", "showPrevious", "showNext", "showEdit">>

\* Page.isShowable. showAttr is the attribute tested: "show" for the page
\* itself, else the one of a sub-element.
PageIsShowable(self, layoutType, showAttr) ==
  LET attr == self[showAttr]
      show == IF Callable(attr) THEN attr.does ELSE Returned(attr)
  IN  IF show.t = "raise" THEN show
      ELSE IF show.v = PyStr(S_view)
      THEN Returned(PyBool(layoutType = PyStr(S_view)))
      ELSE show

\* Page.getInfo: an object with one attribute per sub-element.
PageGetInfo(self, layoutType) ==
  LET shown == [i \in 1..Len(subElements) |->
                  PageIsShowable(self, layoutType, subElements[i])]
  IN  IF \E i \in 1..Len(subElements) : shown[i].t = "raise"
      THEN shown[CHOOSE i \in 1..Len(subElements) :
                   /\ shown[i].t = "raise"
                   /\ \A j \in 1..(i - 1) : shown[j].t # "raise"]
      ELSE Returned([t |-> "Object", showSave |-> shown[1].v,
                     showCancel |-> shown[2].v, showPrevious |-> shown[3].v,
                     showNext |-> shown[4].v, showEdit |-> shown[5].v])

\* Phase.__init__
PhaseInit(name) ==
  [t |-> "Phase", name |-> name, pages |-> <<>>, hiddenPages |-> <<>>,
   pagesInfo |-> [n \in {} |-> PyNone], totalNbOfPhases |-> PyNone,
   previousPhase |-> PyNone, nextPhase |-> PyNone]

\* A reference to the Phase instance at place i of allPhases.
PhaseRef(i) == [t |-> "Phase", at |-> i]

\* The entry of pagesInfo that addPage creates: Object(...) updated with
\* the attributes of getInfo's object.
PageInfo(page, isShowableOnView, isShowableOnEdit, info) ==
  [t |-> "Object", page |-> page, showOnView |-> isShowableOnView,
   showOnEdit |-> isShowableOnEdit, links |-> PyNone,
   showSave |-> info.showSave, showCancel |-> info.showCancel,
   showPrevious |-> info.showPrevious, showNext |-> info.showNext,
   showEdit |-> info.showEdit]


\* What Phase.addPage does once the page is known to be new: the outcome of
\* the call and the phase after it.
AddNewPage(self, page, layoutType) ==
  LET isShowableOnView == PageIsShowable(page, PyStr(S_view), "show")
      isShowableOnEdit == PageIsShowable(page, PyStr(S_edit), "show")
      info == PageGetInfo(page, layoutType)
  IN  IF isShowableOnView.t = "raise" THEN [out |-> isShowableOnView, self |-> self]
      ELSE IF isShowableOnEdit.t = "raise"
      THEN [out |-> isShowableOnEdit, self |-> self]
      ELSE IF Truthy(isShowableOnView.v) \/ Truthy(isShowableOnEdit.v)
      THEN IF info.t = "raise"
           THEN \* the name is appended before getInfo is called
                [out |-> info,
                 self |-> [self EXCEPT !.pages = Append(@, page.name)]]
           ELSE [out |-> Returned(PyNone),
                 self |-> [self EXCEPT
                   !.pages = Append(@, page.name),
                   !.pagesInfo = DictSet(@, page.name,
                      PageInfo(page, isShowableOnView.v, isShowableOnEdit.v,
                               info.v))]]
      ELSE [out |-> Returned(PyNone),
            self |-> [self EXCEPT !.hiddenPages = Append(@, page.name)]]

\* Phase.addPage
addPage(self, fld, layoutType) ==
  IF InList(fld.page.name, self.pages) \/ InList(fld.page.name, self.hiddenPages)
  THEN [out |-> Returned(PyNone), self |-> self]
  ELSE AddNewPage(self, fld.page, layoutType)

\* Phase.addPageLinks. tied are the objects field.getValue(obj,
\* type='zobjects') gives, each with its title and what absolute_url()
\* returns. The result holds the outcome of the call and the phase after
\* it; a page without entry in pagesInfo raises KeyError.
addPageLinks(self, fld, tied) ==
  IF InList(fld.page.name, self.hiddenPages)
  THEN [out |-> Returned(PyNone), self |-> self]
  ELSE LET infos == [i \in 1..Len(tied) |->
                       [t |-> "Object", title |-> tied[i].title,
                        url |-> tied[i].url]]
       IN  IF fld.page.name \notin DOMAIN self.pagesInfo
           THEN [out |-> Raised("KeyError"), self |-> self]
           ELSE [out |-> Returned(PyNone),
                 self |-> [self EXCEPT
                   !.pagesInfo[fld.page.name].links = PyList(infos)]]

\* The places of allPhases, in order, whose phase has the given name.
RECURSIVE PlacesNamed(_, _, _)
PlacesNamed(allPhases, name, i) ==
  IF i > Len(allPhases) THEN <<>>
  ELSE (IF allPhases[i].name = name THEN <<i>> ELSE <<>>)
       \o PlacesNamed(allPhases, name, i + 1)

\* Phase.computeNextPrevious: the phase after the call. Each phase of that
\* name sets the attributes; the last one that sets an attribute wins.
RECURSIVE NextPreviousFrom(_, _, _)
NextPreviousFrom(self, places, n) ==
  IF places = <<>> THEN self
  ELSE LET i == Head(places)
           prev == IF i > 1 THEN [self EXCEPT !.previousPhase = PhaseRef(i - 1)]
                   ELSE self
           both == IF i < n THEN [prev EXCEPT !.nextPhase = PhaseRef(i + 1)]
                   ELSE prev
       IN  NextPreviousFrom(both, Tail(places), n)

computeNextPrevious(self, allPhases) ==
  NextPreviousFrom(self, PlacesNamed(allPhases, self.name, 1), Len(allPhases))


\* (res, info): the page and the entry of pagesInfo a phase has for it;
\* KeyError when the phase has no entry for that page.
PageAndInfo(phase, res) ==
  IF res \in DOMAIN phase.pagesInfo
  THEN Returned(PyTuple(<<res, phase.pagesInfo[res]>>))
  ELSE Raised("KeyError")

\* self.pages[0] with its entry of pagesInfo: IndexError without any page.
FirstPage(phase) ==
  IF phase.pages = <<>> THEN Raised("IndexError")
  ELSE PageAndInfo(phase, phase.pages[1])

\* self.pages[-1] with its entry of pagesInfo: IndexError without any page.
LastPage(phase) ==
  IF phase.pages = <<>> THEN Raised("IndexError")
  ELSE PageAndInfo(phase, phase.pages[Len(phase.pages)])

\* Phase.getPreviousPage where the previous phase is never looked at.
getPreviousPageSamePhase(self, page, allPhases) ==
  LET pageIndex == ListIndex(self.pages, page)
  IN  IF pageIndex.t = "raise" THEN FirstPage(self)
      ELSE IF pageIndex.v.n > 0
      THEN PageAndInfo(self, self.pages[pageIndex.v.n])
      ELSE Returned(PyTuple(<<PyNone, PyNone>>))

\* Phase.getPreviousPage. allPhases holds the Phase instances the
\* attribute previousPhase refers to.
getPreviousPage(self, page, allPhases) ==
  LET pageIndex == ListIndex(self.pages, page)
  IN  IF pageIndex.t = "raise" THEN FirstPage(self)
      ELSE IF pageIndex.v.n > 0
      THEN PageAndInfo(self, self.pages[pageIndex.v.n])
      ELSE IF Truthy(self.previousPhase)
      THEN LastPage(allPhases[self.previousPhase.at])
      ELSE Returned(PyTuple(<<PyNone, PyNone>>))

\* Phase.getNextPage where the page after the next one is returned.
getNextPageSkip(self, page, allPhases) ==
  LET pageIndex == ListIndex(self.pages, page)
  IN  IF pageIndex.t = "raise" THEN FirstPage(self)
      ELSE IF pageIndex.v.n < Len(self.pages) - 2
      THEN PageAndInfo(self, self.pages[pageIndex.v.n + 3])
      ELSE IF Truthy(self.nextPhase)
      THEN FirstPage(allPhases[self.nextPhase.at])
      ELSE Returned(PyTuple(<<PyNone, PyNone>>))

\* Phase.getNextPage. allPhases holds the Phase instances the attribute
\* nextPhase refers to.
getNextPage(self, page, allPhases) ==
  LET pageIndex == ListIndex(self.pages, page)
  IN  IF pageIndex.t = "raise" THEN FirstPage(self)
      ELSE IF pageIndex.v.n < Len(self.pages) - 1
      THEN PageAndInfo(self, self.pages[pageIndex.v.n + 2])
      ELSE IF Truthy(self.nextPhase)
      THEN FirstPage(allPhases[self.nextPhase.at])
      ELSE Returned(PyTuple(<<PyNone, PyNone>>))

----------------------------------------------------------------------------
(* UiGroup and Group.insertInto *)

\* UiGroup.__init__, for a group without label: the public attributes of
\* the group become attributes of the UiGroup.
UiGroupInit(group, page, metaType, forSearch) ==
  LET gp == IF forSearch THEN <<"s", "e", "a", "r", "c", "h", "g", "r", "o", "u", "p">>
            ELSE <<"g", "r", "o", "u", "p">>
      labelId == metaType.s \o <<"_">> \o gp \o <<"_">> \o group.name.s
  IN  [t |-> "UiGroup", type |-> "group", name |-> group.name,
       columns |-> group.columns, wide |-> group.wide, style |-> group.style,
       hasLabel |-> group.hasLabel, hasDescr |-> group.hasDescr,
       hasHelp |-> group.hasHelp, hasHeaders |-> group.hasHeaders,
       nbOfHeaders |-> group.nbOfHeaders, group |-> group.group,
       colspan |-> group.colspan, master |-> group.master,
       masterValue |-> group.masterValue,
       columnsWidths |-> [i \in 1..Len(group.columns.items) |->
                            group.columns.items[i].width],
       columnsAligns |-> [i \in 1..Len(group.columns.items) |->
                            group.columns.items[i].align],
       labelId |-> PyStr(labelId),
       descrId |-> PyStr(labelId \o <<"_", "d", "e", "s", "c", "r">>),
       helpId |-> PyStr(labelId \o <<"_", "h", "e", "l", "p">>),
       page |-> page.name,
       fields |-> << <<>> >>,
       px |-> IF forSearch THEN "pxViewSearches" ELSE "pxView"]

\* The UiGroup instance the dict uiGroups holds under that name, as it is
\* found in a row or in a list: a reference, with the attribute colspan
\* that addField reads.
UiGroupRef(ui) == [t |-> "UiGroup", name |-> ui.name, colspan |-> ui.colspan]

RECURSIVE SumColspan(_)
\* filledColumns: the sum of the colspans of the elements of a row
SumColspan(row) ==
  IF row = <<>> THEN 0 ELSE Head(row).colspan + SumColspan(Tail(row))

\* range(n) * ['']: n empty cells, none when n is negative
EmptyCells(n) == [i \in 1..n |-> PyStr(<<>>)]

\* UiGroup.addField where a field that fills the row exactly starts a new
\* row.
addFieldStrict(self, fld) ==
  LET lastRow == self.fields[Len(self.fields)]
      freeColumns == Len(self.columnsWidths) - SumColspan(lastRow)
  IN  IF freeColumns > fld.colspan
      THEN [self EXCEPT !.fields[Len(self.fields)] = Append(@, fld)]
      ELSE [self EXCEPT !.fields =
              Append([@ EXCEPT ![Len(@)] = lastRow \o EmptyCells(freeColumns)],
                     <<fld>>)]

\* UiGroup.addField: the UiGroup after the call.
addField(self, fld) ==
  LET lastRow == self.fields[Len(self.fields)]
      numberOfColumns == Len(self.columnsWidths)
      filledColumns == SumColspan(lastRow)
      freeColumns == numberOfColumns - filledColumns
  IN  IF freeColumns >= fld.colspan
      THEN [self EXCEPT !.fields[Len(self.fields)] = Append(@, fld)]
      ELSE [self EXCEPT !.fields =
              Append(IF freeColumns # 0
                     THEN [@ EXCEPT ![Len(@)] = lastRow \o EmptyCells(freeColumns)]
                     ELSE @,
                     <<fld>>)]

RECURSIVE insertInto(_, _, _, _, _, _)
RECURSIVE insertIntoAlways(_, _, _, _, _, _)

\* Group.insertInto where the UiGroup is inserted again at each call.
insertIntoAlways(self, flds, uis, page, metaType, forSearch) ==
  LET uiGroup == UiGroupInit(self, page, metaType, forSearch)
      created == IF self.name \in DOMAIN uis THEN uis
                 ELSE DictSet(uis, self.name, uiGroup)
  IN  IF ~Truthy(self.group)
      THEN [fields |-> Append(flds, UiGroupRef(uiGroup)),
            uiGroups |-> created, out |-> UiGroupRef(uiGroup)]
      ELSE LET outer == insertInto(self.group, flds, created, page, metaType,
                                   forSearch)
           IN  [fields |-> outer.fields,
                uiGroups |-> [outer.uiGroups EXCEPT
                   ![outer.out.name] = addField(@, UiGroupRef(uiGroup))],
                out |-> UiGroupRef(uiGroup)]

\* Group.insertInto: the list fields and the dict uiGroups after the call,
\* and the UiGroup returned.
insertInto(self, flds, uis, page, metaType, forSearch) ==
  IF self.name \notin DOMAIN uis
  THEN LET uiGroup == UiGroupInit(self, page, metaType, forSearch)
           created == DictSet(uis, self.name, uiGroup)
       IN  IF ~Truthy(self.group)
           THEN [fields |-> Append(flds, UiGroupRef(uiGroup)),
                 uiGroups |-> created, out |-> UiGroupRef(uiGroup)]
           ELSE LET outer == insertInto(self.group, flds, created, page,
                                        metaType, forSearch)
                IN  [fields |-> outer.fields,
                     uiGroups |-> [outer.uiGroups EXCEPT
                        ![outer.out.name] = addField(@, UiGroupRef(uiGroup))],
                     out |-> UiGroupRef(uiGroup)]
  ELSE [fields |-> flds, uiGroups |-> uis, out |-> UiGroupRef(uis[self.name])]

----------------------------------------------------------------------------
(* The inputs the operations are applied to *)

S_a == <<"a">>
S_b == <<"b">>

RECURSIVE Concats(_, _)
\* The strings made of at most n of the given pieces.
Concats(pieces, n) ==
  IF n = 0 THEN {<<>>}
  ELSE LET shorter == Concats(pieces, n - 1)
       IN  shorter \cup {p \o q : p \in pieces, q \in shorter}

\* Strings with and without the tag securityCheck looks for.
ScriptStrings ==
  Concats({<<"<">>, <<"s", "c", "r", "i", "p", "t">>, S_script}, MaxPieces)

\* The values Field.validate may receive from the request.
ValidateValues ==
  {PyNone, PyList(<<>>), PyList(<<PyStr(S_a)>>), PyList(<<PyStr(S_script)>>)}
  \cup {PyStr(s) : s \in ScriptStrings}

\* What validateValue may return: nothing, or an error message.
ValidateValueResults == {PyNone, PyStr(<<>>), PyStr(<<"k", "o">>)}

\* What a custom validator function may do.
CustomResults ==
  {Returned(PyNone), Returned(PyBool(TRUE)), Returned(PyBool(FALSE)),
   Returned(PyStr(<<>>)), Returned(PyStr(<<"n", "o">>)),
   Throws("Exception", <<"e", "r", "r">>), Throws("Exception", <<>>),
   Throws("ValueError", <<"b", "a", "d">>), Throws("MyError", <<"m", "y">>),
   ThrowsUnicode("Exception"),
   Throws("KeyboardInterrupt", <<>>), Throws("SystemExit", <<"1">>),
   Throws("BaseException", <<"x">>), Throws("MyBase", <<"x">>),
   Throws("OldStyle", <<>>)}

Validators ==
  {PyNone, [t |-> "function"], [t |-> "regex", re |-> "EMAIL"],
   [t |-> "regex", re |-> "OTHER"], PyList(<<PyStr(S_a)>>)}

RECURSIVE SeqsUpTo(_, _)
\* The sequences of at most n elements of S.
SeqsUpTo(S, n) ==
  IF n = 0 THEN {<<>>}
  ELSE LET shorter == SeqsUpTo(S, n - 1)
       IN  shorter \cup {Append(q, x) : q \in shorter, x \in S}

\* The values a master field may have in the request.
RequestValues ==
  {PyStr(S_a), PyStr(S_b)}
  \cup {PyList(q) : q \in SeqsUpTo({PyStr(S_a), PyStr(S_b)}, MaxList)}

\* The request holds nothing yet.
EmptyRequest == [n \in {} |-> PyNone]

\* The object of a successful construction.
Built(outcomes) == {o.v : o \in {x \in outcomes : x.t = "return"}}

\* A group that depends on master field m for value v, possibly in a group.
SlaveGroup(name, outer, m, v) ==
  GroupInit(PyStr(name), DefaultColumns, "section2", outer, m, v)

NoCall == [op |-> "none"]

\* No phase, no UiGroup and no element of a page exist yet.
NoLayout ==
  /\ phases = <<>>
  /\ uiGroups = [n \in {} |-> PyNone]
  /\ fields = <<>>

----------------------------------------------------------------------------
(* Validation of request values: Field.validate *)

ValidateFields ==
  Built({FieldInit(validator, <<min, 1>>, PyBool(TRUE), PyStr(S_main),
                   md[1], md[2], md[3]) :
           validator \in Validators, min \in {0, 1},
           md \in {<<PyNone, PyNone, PyNone>>,
                   <<PyNone, MasterField("m1"), PyStr(S_a)>>}
                  \cup {<<g, PyNone, PyNone>> :
                          g \in Built({SlaveGroup(<<"g">>, PyNone,
                                         MasterField("m1"), PyStr(S_a))})}})

Init ==
  /\ field \in ValidateFields
  /\ request = EmptyRequest
  /\ allowed = {}
  /\ last = NoCall
  /\ NoLayout

\* The user's request gives master field name the value v.
SetRequest(name, v) ==
  /\ last = NoCall
  /\ request' = [n \in DOMAIN request \cup {name} |->
                   IF n = name THEN v ELSE request[n]]
  /\ UNCHANGED <<field, allowed, last, phases, uiGroups, fields>>

\* A call of field.validate(obj, value).
Validate(value, vv, fn, matched) ==
  /\ last = NoCall
  /\ last' = [op |-> "validate", value |-> value, vv |-> vv, fn |-> fn,
              matched |-> matched]
             @@ validate(field, request, value, vv, fn, matched)
  /\ UNCHANGED <<field, request, allowed, phases, uiGroups, fields>>

ValidateCall ==
  \E value \in ValidateValues, vv \in ValidateValueResults :
    \E fn \in IF field.validator.t = "function" THEN CustomResults
              ELSE {Returned(PyNone)} :
      \E matched \in IF field.validator.t = "regex" THEN BOOLEAN ELSE {TRUE} :
        Validate(value, vv, fn, matched)

\* The values the master field of these fields gets in the request.
MasterRequestValues ==
  {PyStr(S_a), PyStr(S_b), PyList(<<PyStr(S_b)>>),
   PyList(<<PyStr(S_b), PyStr(S_a)>>)}

SetMasterRequest == \E v \in MasterRequestValues : SetRequest("m1", v)

\* The caller has used the outcome of the call; the next call can be made.
Return ==
  /\ last # NoCall
  /\ last' = NoCall
  /\ UNCHANGED <<field, request, allowed, phases, uiGroups, fields>>

Next == SetMasterRequest \/ ValidateCall \/ Return

Spec == Init /\ [][Next]_vars

----------------------------------------------------------------------------
(* What the claims speak of, stated without the operators above *)

RECURSIVE GroupChain(_)
\* The groups around an element, from the innermost one outward.
GroupChain(g) == IF g = PyNone THEN <<>> ELSE <<g>> \o GroupChain(g.group)

\* The field followed by its enclosing groups.
MasterChain(f) == <<f>> \o GroupChain(f.group)

\* The positions of the chain whose element has a master.
Governed(f) == {i \in 1..Len(MasterChain(f)) : MasterChain(f)[i].master # PyNone}

\* The strings of a masterValue.
MasterValueSet(e) == {e.masterValue.items[i] : i \in 1..Len(e.masterValue.items)}

\* The field is shown according to the value its master has in the request.
ShownByMaster(f, req) ==
  \/ Governed(f) = {}
  \/ LET e == MasterChain(f)[CHOOSE i \in Governed(f) : \A j \in Governed(f) : i <= j]
         rv == IF e.master.name \in DOMAIN req THEN req[e.master.name] ELSE PyNone
     IN  IF rv.t \in {"list", "tuple"}
         THEN \E k \in 1..Len(rv.items) : rv.items[k] \in MasterValueSet(e)
         ELSE rv \in MasterValueSet(e)

\* The string holds the tag "<script" at some place.
HasScriptTag(s) ==
  \E i \in 0..(Len(s) - 7) :
    /\ s[i + 1] = "<" /\ s[i + 2] = "s" /\ s[i + 3] = "c" /\ s[i + 4] = "r"
    /\ s[i + 5] = "i" /\ s[i + 6] = "p" /\ s[i + 7] = "t"

InCalls(name) == \E i \in 1..Len(last.calls) : last.calls[i] = name

EmptyValues == {PyNone, PyStr(<<>>), PyList(<<>>)}

----------------------------------------------------------------------------
(* Claims on Field.validate *)

\* C1: for an empty value (None, '' or []), validate returns the
\* 'field_required' message exactly when the field is required and shown
\* according to its master; otherwise it returns None; in both cases neither
\* securityCheck nor validateValue nor the custom validator runs.
C1_EmptyValue ==
  (last.op = "validate" /\ last.value \in EmptyValues) =>
     /\ last.calls = <<>>
     /\ last.logged = <<>>
     /\ last.out = IF field.multiplicity[1] > 0 /\ ShownByMaster(field, request)
                   THEN Returned(Translate("field_required"))
                   ELSE Returned(PyNone)

\* C1 witness: a required field hidden by its master got an empty list and
\* validate returned None.
C1_Witness ==
  /\ last.op = "validate" /\ last.value = PyList(<<>>)
  /\ field.required /\ ~ShownByMaster(field, request)
  /\ last.out = Returned(PyNone)

\* C2: validate always ends by returning None or a non-empty error message;
\* a value that is not valid is signalled in no other way.
C2_Original ==
  last.op = "validate" =>
     /\ last.out.t = "return"
     /\ \/ last.out.v = PyNone
        \/ last.out.v.t = "str" /\ Len(last.out.v.s) > 0

\* C3: a non-empty string holding "<script" makes validate log an error on
\* the object and raise, before validateValue and the custom validator; a
\* string without it passes the security check: nothing is logged and
\* validateValue runs next.
C3_SecurityCheck ==
  (last.op = "validate" /\ last.value.t = "str" /\ Len(last.value.s) > 0) =>
     IF HasScriptTag(last.value.s)
     THEN /\ last.out.t = "raise"
          /\ last.logged = <<ScriptLogEntry>>
          /\ ~InCalls("validateValue") /\ ~InCalls("validator")
          /\ ~InCalls("match")
     ELSE /\ last.logged = <<>>
          /\ Len(last.calls) >= 2
          /\ last.calls[1] = "securityCheck" /\ last.calls[2] = "validateValue"

\* C3 witness: the tag was found inside a longer string.
C3_Witness ==
  /\ last.op = "validate" /\ last.value = PyStr(<<"<">> \o S_script)
  /\ last.out.t = "raise"

\* The checks that come before the custom function passed, for a field
\* whose validator is a function.
ReachedCustomValidator ==
  /\ last.op = "validate" /\ field.validator.t = "function"
  /\ last.value \notin EmptyValues
  /\ ~(last.value.t = "str" /\ HasScriptTag(last.value.s))
  /\ last.vv \in {PyNone, PyStr(<<>>)}

\* What validate returns for what the custom function returned.
ForReturned(v) ==
  IF v.t = "str" /\ v.s # <<>> THEN Returned(v)
  ELSE IF v \in {PyNone, PyBool(FALSE), PyStr(<<>>), PyInt(0)}
  THEN Returned(PyStr(<<"field_invalid">>))
  ELSE Returned(PyNone)

\* C4 as stated: when the validator is a custom function and the earlier
\* checks passed, validate returns the function's result when it is a
\* non-empty string, the 'field_invalid' message when it is falsy, None when
\* it is truthy and no string, and str(e) when it raises an exception e.
C4_Original ==
  ReachedCustomValidator =>
     /\ InCalls("validator")
     /\ IF last.fn.t = "raise"
        THEN last.out = last.fn.str
        ELSE last.out = ForReturned(last.fn.v)

\* C4 amended: as stated for what the function returns; when it raises,
\* validate ends as str(e) does for an instance e of Exception, of whatever
\* subclass (it returns the text, or raises what str(e) raises), and returns
\* the 'field_invalid' message for anything else raised (BaseException and
\* the classes derived from it alone, such as KeyboardInterrupt and
\* SystemExit, and instances of old-style classes).
C4_CustomValidator ==
  ReachedCustomValidator =>
     /\ InCalls("validator")
     /\ IF last.fn.t = "raise"
        THEN IF last.fn.cls \in {"Exception", "ValueError", "MyError"}
             THEN last.out = last.fn.str
             ELSE last.out = Returned(PyStr(<<"field_invalid">>))
        ELSE last.out = ForReturned(last.fn.v)

\* C4 witness: the custom function raised ValueError('bad') for a value
\* that passed the earlier checks, and validate returned 'bad'.
C4_Witness ==
  /\ last.op = "validate" /\ InCalls("validator")
  /\ last.fn = Throws("ValueError", <<"b", "a", "d">>)
  /\ last.out = Returned(PyStr(<<"b", "a", "d">>))

----------------------------------------------------------------------------
(* Visibility of a field on a layout: Field.isShowable *)

LayoutTypes == {PyStr(S_view), PyStr(S_edit), PyStr(S_result), PyStr(S_cell)}

\* The values of the show attribute, or returned by it when it is callable.
ShowValues ==
  {PyNone, PyBool(TRUE), PyBool(FALSE), PyInt(0), PyInt(1), PyStr(<<>>)}
  \cup LayoutTypes
  \cup {PyList(q) : q \in SeqsUpTo({PyStr(S_view), PyStr(S_edit), PyStr(S_cell)},
                                   MaxList)}
  \cup {PyTuple(q) : q \in SeqsUpTo({PyStr(S_view), PyStr(S_edit)}, MaxList)}

\* What calling show with the object and the field does.
ShowWithField ==
  {Returned(PyBool(TRUE)), Returned(PyBool(FALSE)), Returned(PyStr(S_edit)),
   Raised("TypeError"), Raised("Exception"), Raised("KeyboardInterrupt")}

\* A value, or a function: of the object (def show(obj)), of the object and
\* maybe the field (def show(obj, field=None)), or of both
\* (def show(obj, field)).
ShowAttributes ==
  ShowValues
  \cup {[t |-> "function", does |-> Returned(x)] : x \in ShowValues}
  \cup {[t |-> "function", does |-> Raised(e)] :
          e \in {"Exception", "TypeError", "KeyboardInterrupt"}}
  \cup {[t |-> "function", does |-> d, withField |-> w] :
          d \in {Returned(PyBool(FALSE)), Raised("TypeError"),
                 Raised("MyTypeError"), Raised("Exception")},
          w \in ShowWithField}
  \cup {[t |-> "function", withField |-> w] : w \in ShowWithField}

ShowFields ==
  Built({FieldInit(PyNone, <<0, 1>>, show, PyStr(S_main), PyNone, PyNone, PyNone) :
           show \in ShowAttributes})

Permissions == {"View", "Modify portal content"}

InitShow ==
  /\ field \in ShowFields
  /\ request = EmptyRequest
  /\ allowed \in SUBSET Permissions
  /\ last = NoCall
  /\ NoLayout

FieldNames == {"f", "h"}

\* A call of field.init(name, klass, appName).
InitField ==
  /\ last = NoCall
  /\ \E name \in FieldNames :
       /\ field' = init(field, name)
       /\ last' = [op |-> "Field.init", name |-> name, before |-> field,
                   out |-> Returned(PyNone)]
  /\ UNCHANGED <<request, allowed, phases, uiGroups, fields>>

\* The permissions of the user on obj change.
SetAllowed ==
  /\ last = NoCall
  /\ \E perms \in SUBSET Permissions : perms # allowed /\ allowed' = perms
  /\ UNCHANGED <<field, request, last, phases, uiGroups, fields>>

\* A call of field.isShowable(obj, layoutType).
IsShowable ==
  /\ last = NoCall
  /\ \E layoutType \in LayoutTypes :
       last' = [op |-> "isShowable", layoutType |-> layoutType]
               @@ isShowable(field, allowed, layoutType)
  /\ UNCHANGED <<field, request, allowed, phases, uiGroups, fields>>

NextShow == InitField \/ SetAllowed \/ IsShowable \/ Return

SpecShow == InitShow /\ [][NextShow]_vars

\* What evaluating the show attribute ends with: its value, or for a
\* function what the call with the object does, or, when that call raises
\* a TypeError (of a subclass too) and the function takes the field too,
\* what the call with the object and the field does.
ShowResult ==
  LET f == field.show
      alone == IF f.t # "function" THEN Returned(f)
               ELSE IF "does" \in DOMAIN f THEN f.does
               ELSE Raised("TypeError")
  IN  IF f.t = "function" /\ alone.t = "raise"
         /\ alone.exc \in {"TypeError", "MyTypeError"}
         /\ "withField" \in DOMAIN f
      THEN f.withField
      ELSE alone

\* C5: on a field that Field.init gave its permissions, isShowable returns
\* False without evaluating show when obj does not
\* allow the write permission (layout 'edit') or the read permission (other
\* layouts); otherwise it returns True exactly when show, or what calling it
\* returns, is a sequence that holds layoutType, or is one of 'view', 'edit',
\* 'result' and equals layoutType, or is another truthy value.
C5_IsShowable ==
  (last.op = "isShowable" /\ "name" \in DOMAIN field) =>
     IF (IF last.layoutType.s = S_edit THEN "Modify portal content" ELSE "View")
          \notin allowed
     THEN last.out = Returned(PyBool(FALSE)) /\ last.calls = <<>>
     ELSE ShowResult.t = "return" =>
          LET res == ShowResult.v
              expected ==
                IF res.t \in {"list", "tuple"}
                THEN last.layoutType \in {res.items[i] : i \in 1..Len(res.items)}
                ELSE IF res.t = "str" /\ res.s \in {S_view, S_edit, S_result}
                THEN res = last.layoutType
                ELSE res \notin {PyNone, PyBool(FALSE), PyInt(0), PyStr(<<>>)}
          IN  last.out = Returned(PyBool(expected))

\* C5 witness: on layout 'edit', with the read permission only, a callable
\* show was not called and the field is not shown.
C5_Witness ==
  /\ last.op = "isShowable" /\ last.layoutType = PyStr(S_edit)
  /\ allowed = {"View"}
  /\ field.show = [t |-> "function", does |-> Returned(PyBool(TRUE))]
  /\ last.out = Returned(PyBool(FALSE)) /\ last.calls = <<>>

----------------------------------------------------------------------------
(* Master/slave relationships: Field.getMasterData, Field.isClientVisible *)

MasterNames == {"m1", "m2"}

Masters == {PyNone} \cup {MasterField(n) : n \in MasterNames}

\* Groups without and with a master, alone or inside an outer group.
OuterGroups ==
  {PyNone} \cup Built({SlaveGroup(<<"o">>, PyNone, m, PyStr(S_a)) : m \in Masters})

InnerGroups ==
  Built({SlaveGroup(<<"g">>, outer, m, PyStr(S_b)) :
           outer \in OuterGroups, m \in Masters})

MasterFields ==
  Built({FieldInit(PyNone, <<1, 1>>, PyBool(TRUE), PyStr(S_main), g, m, mv) :
           g \in {PyNone} \cup InnerGroups, m \in Masters,
           mv \in {PyNone, PyStr(S_a), PyList(<<PyStr(S_a), PyStr(S_b)>>)}})

InitMaster ==
  /\ field \in MasterFields
  /\ request = EmptyRequest
  /\ allowed = {}
  /\ last = NoCall
  /\ NoLayout

SetAnyRequest == \E n \in MasterNames, v \in RequestValues : SetRequest(n, v)

\* A call of field.getMasterData().
GetMasterData ==
  /\ last = NoCall
  /\ last' = [op |-> "getMasterData", out |-> Returned(getMasterData(field))]
  /\ UNCHANGED <<field, request, allowed, phases, uiGroups, fields>>

\* A call of field.isClientVisible(obj).
IsClientVisible ==
  /\ last = NoCall
  /\ last' = [op |-> "isClientVisible",
              out |-> Returned(isClientVisible(field, request))]
  /\ UNCHANGED <<field, request, allowed, phases, uiGroups, fields>>

NextMaster == SetAnyRequest \/ GetMasterData \/ IsClientVisible \/ Return

SpecMaster == InitMaster /\ [][NextMaster]_vars

\* The innermost element, starting at the field, that has a master.
Governing(f) ==
  MasterChain(f)[CHOOSE i \in Governed(f) : \A j \in Governed(f) : i <= j]

\* C6 as stated: isClientVisible returns True when neither the field nor its
\* groups have a master, and otherwise True or False according to whether
\* the master's request value, or one of its elements when it is a list, is
\* one of the masterValue strings. Stated for a masterValue that is not empty
\* and request values other than the empty list.
C6_Original ==
  (/\ last.op = "isClientVisible"
   /\ \A i \in Governed(field) : MasterValueSet(MasterChain(field)[i]) # {}
   /\ \A n \in DOMAIN request : request[n] # PyList(<<>>)) =>
     last.out = Returned(PyBool(ShownByMaster(field, request)))

\* C7: getMasterData returns (master, masterValue) of the field when it has
\* a master, else of the innermost enclosing group that has one, else None.
C7_GetMasterData ==
  last.op = "getMasterData" =>
     last.out = IF Governed(field) = {} THEN Returned(PyNone)
                ELSE Returned(PyTuple(<<Governing(field).master,
                                        Governing(field).masterValue>>))

\* C7 witness: neither the field nor its group has a master, the outer group
\* has one, and its pair is returned.
C7_Witness ==
  /\ last.op = "getMasterData"
  /\ field.master = PyNone /\ field.group # PyNone
  /\ field.group.master = PyNone /\ field.group.group # PyNone
  /\ last.out = Returned(PyTuple(<<MasterField("m2"), PyList(<<PyStr(S_a)>>)>>))

----------------------------------------------------------------------------
(* Page data: Page.get, and the page of a field after Field.__init__ *)

PageDataStrings == Concats({<<"a">>, <<"b", "c">>, <<"_">>}, MaxParts)

PageInstances ==
  {PageInit(PyStr(S_a), PyStr(S_main)), PageInit(PyStr(<<"b", "_", "c">>), PyStr(S_b))}

PageData == {PyNone} \cup {PyStr(x) : x \in PageDataStrings} \cup PageInstances

InitPage ==
  /\ field \in Built({FieldInit(PyNone, <<0, 1>>, PyBool(TRUE), PyStr(S_main),
                                PyNone, PyNone, PyNone)})
  /\ request = EmptyRequest
  /\ allowed = {}
  /\ last = NoCall
  /\ NoLayout

\* A call of Page.get(pageData).
PageGetCall ==
  /\ last = NoCall
  /\ \E pageData \in PageData :
       last' = [op |-> "Page.get", pageData |-> pageData, out |-> PageGet(pageData)]
  /\ UNCHANGED <<field, request, allowed, phases, uiGroups, fields>>

\* A field is declared on page data: Field.__init__. The field under
\* consideration is the new one when the constructor ends normally.
NewField ==
  /\ last = NoCall
  /\ \E pageData \in PageData :
       LET made == FieldInit(PyNone, <<0, 1>>, PyBool(TRUE), pageData,
                             PyNone, PyNone, PyNone)
       IN  /\ last' = [op |-> "Field.__init__", pageData |-> pageData, out |-> made]
           /\ field' = IF made.t = "return" THEN made.v ELSE field
  /\ UNCHANGED <<request, allowed, phases, uiGroups, fields>>

NextPage == PageGetCall \/ NewField \/ Return

SpecPage == InitPage /\ [][NextPage]_vars

\* The place of the last underscore of a string holding one.
IsLastUnderscore(x, i) ==
  /\ i \in 1..Len(x) /\ x[i] = "_"
  /\ \A j \in (i + 1)..Len(x) : x[j] # "_"

HasUnderscore(x) == \E i \in 1..Len(x) : x[i] = "_"

\* The name of a page: a string that is not empty and has no underscore.
\* <pageName>_<phaseName>: a page name and a phase name around the last
\* underscore, the phase name not empty.
IsPageName(x) == Len(x) > 0 /\ ~HasUnderscore(x)

IsPageAndPhase(x) ==
  \E i \in 1..Len(x) : IsLastUnderscore(x, i) /\ i > 1 /\ i < Len(x)

\* The page data the documentation of Page.get lists.
IsListedPageData(d) ==
  \/ d.t = "Page"
  \/ d.t = "str" /\ (IsPageName(d.s) \/ IsPageAndPhase(d.s))

\* C8 as stated: Page.get of <pageName>_<phaseName>, split at the last
\* underscore, returns a Page of that name and that phase; Page.get of a
\* string without underscore returns a Page of that name and phase 'main'.
\* Stated for page and phase names that are not empty, the page name
\* without underscore.
C8_Original ==
  (last.op = "Page.get" /\ last.pageData.t = "str") =>
     /\ IsPageName(last.pageData.s) =>
          last.out = Returned(PageInit(last.pageData, PyStr(S_main)))
     /\ \A i \in 1..Len(last.pageData.s) :
          (/\ IsLastUnderscore(last.pageData.s, i)
           /\ IsPageName(SubSeq(last.pageData.s, 1, i - 1))
           /\ i < Len(last.pageData.s)) =>
             last.out = Returned(PageInit(
               PyStr(SubSeq(last.pageData.s, 1, i - 1)),
               PyStr(SubSeq(last.pageData.s, i + 1, Len(last.pageData.s)))))

\* C9: for a page name, for <pageName>_<phaseName> and for a Page instance,
\* Page.get returns a Page instance, the given one in the last case; a field
\* built on such page data has a Page as its page and the name of that page
\* as its pageName.
C9_AlwaysPage ==
  /\ (last.op = "Page.get" /\ IsListedPageData(last.pageData)) =>
        /\ last.out.t = "return" /\ last.out.v.t = "Page"
        /\ last.pageData.t = "Page" => last.out.v = last.pageData
  /\ (last.op = "Field.__init__" /\ IsListedPageData(last.pageData)) =>
        /\ last.out.t = "return" /\ field = last.out.v
        /\ field.page.t = "Page" /\ field.pageName = field.page.name
        /\ last.pageData.t = "Page" => field.page = last.pageData
  /\ field.page.t = "Page" /\ field.pageName = field.page.name

\* C9 witness: a field was built on a string <pageName>_<phaseName>.
C9_Witness ==
  /\ last.op = "Field.__init__"
  /\ last.pageData = PyStr(<<"b", "c", "_", "a">>)
  /\ last.out.t = "return" /\ field.page.t = "Page"

----------------------------------------------------------------------------
(* Group data: Group.get *)

GroupDataStrings ==
  Concats({<<"g">>, <<"_">>, <<"x">>, <<"0">>, <<"3">>, <<"-", "3">>,
           <<" ", "3">>, <<"-", " ", "3">>, <<VerticalTab, "3">>}, MaxParts)

GroupInstances ==
  Built({GroupInit(PyStr(<<"g">>), cols, "section2", PyNone, PyNone, PyNone) :
           cols \in {DefaultColumns, PyList(<<PyStr(<<"3", "0", "%">>),
                                             PyStr(<<"7", "0", "%">>)>>)}})

GroupData == {PyNone} \cup {PyStr(x) : x \in GroupDataStrings} \cup GroupInstances

\* A call of Group.get(groupData).
GroupGetCall ==
  /\ last = NoCall
  /\ \E groupData \in GroupData :
       last' = [op |-> "Group.get", groupData |-> groupData,
                out |-> GroupGet(groupData)]
  /\ UNCHANGED <<field, request, allowed, phases, uiGroups, fields>>

NextGroup == GroupGetCall \/ Return

SpecGroup == InitPage /\ [][NextGroup]_vars

\* The characters of x that are no whitespace, in order.
NonBlank(x) == SelectSeq(x, LAMBDA c : c \notin Whitespace)

\* x is the text of an integer, as int() reads it: digits after an optional
\* sign, with whitespace allowed before the sign, after it and after the
\* digits.
IsIntegerText(x) ==
  LET y == NonBlank(x)
      body == IF Len(y) > 0 /\ y[1] \in {"+", "-"} THEN Tail(y) ELSE y
  IN  /\ Len(body) > 0
      /\ \A i \in 1..Len(body) :
           body[i] \in {"0", "1", "2", "3", "4", "5", "6", "7", "8", "9"}
      /\ \A i, j, k \in 1..Len(x) :
           (i < j /\ j < k /\ x[j] \in Whitespace) =>
              ~(x[i] \notin Whitespace \cup {"+", "-"} /\ x[k] \notin Whitespace)

\* The value of a decimal digit.
DigitOf(c) ==
  CASE c = "0" -> 0 [] c = "1" -> 1 [] c = "2" -> 2 [] c = "3" -> 3
    [] c = "4" -> 4 [] c = "5" -> 5 [] c = "6" -> 6 [] c = "7" -> 7
    [] c = "8" -> 8 [] c = "9" -> 9

RECURSIVE DecimalValue(_, _)
\* The number the digits of x stand for, read from the left.
DecimalValue(acc, x) ==
  IF x = <<>> THEN acc ELSE DecimalValue(10 * acc + DigitOf(Head(x)), Tail(x))

\* The integer a text stands for.
IntegerOfText(x) ==
  LET y == NonBlank(x)
  IN  IF y[1] = "-" THEN 0 - DecimalValue(0, Tail(y))
      ELSE IF y[1] = "+" THEN DecimalValue(0, Tail(y))
      ELSE DecimalValue(0, y)

\* The outcome is a group of that name with nb columns of the same width.
IsGroupOfColumns(out, name, nb) ==
  /\ out.t = "return" /\ out.v.t = "Group" /\ out.v.name = PyStr(name)
  /\ out.v.columns.t = "list" /\ Len(out.v.columns.items) = nb
  /\ \A i \in 1..nb :
       /\ out.v.columns.items[i].t = "Column"
       /\ out.v.columns.items[i].width = out.v.columns.items[1].width

\* C10: '<groupName>_<numberOfColumns>' gives a group of that name
\* with numberOfColumns columns of equal width, one column when the part
\* after the last underscore is no integer; a string without underscore
\* gives a group of that name with the single default column; a Group
\* instance is returned as is. Stated for group names that are not empty
\* and numbers of columns that are not negative, read as int() reads them.
C10_Original ==
  last.op = "Group.get" =>
     /\ last.groupData.t = "Group" => last.out = Returned(last.groupData)
     /\ (last.groupData.t = "str" /\ Len(last.groupData.s) > 0) =>
          LET x == last.groupData.s
          IN  /\ ~HasUnderscore(x) =>
                   /\ IsGroupOfColumns(last.out, x, 1)
                   /\ last.out.v.columns.items[1].width = PyStr(S_100pct)
              /\ \A i \in 2..Len(x) : IsLastUnderscore(x, i) =>
                   LET name == SubSeq(x, 1, i - 1)
                       rest == SubSeq(x, i + 1, Len(x))
                   IN  IF IsIntegerText(rest)
                       THEN IntegerOfText(rest) >= 0 =>
                              IsGroupOfColumns(last.out, name, IntegerOfText(rest))
                       ELSE IsGroupOfColumns(last.out, name, 1)

----------------------------------------------------------------------------
(* The columns of a group: Group.__init__ and Group._setColumns *)

\* What an item of "columns" can be: a width, or a Column instance.
ColumnsItems ==
  {PyStr(<<"3", "0", "%">>), PyStr(<<"7", "0", "%">>),
   ColumnInit(PyStr(<<"5", "0", "%">>))}

\* The values given as "columns": lists and tuples of such items.
ColumnsData ==
  {PyList(xs) : xs \in SeqsUpTo(ColumnsItems, MaxColumns)}
  \cup {PyTuple(xs) : xs \in SeqsUpTo(ColumnsItems, MaxColumns)}

GroupStyles == {"section2", "tabs"}

\* A call of Group('g', columns=columns, style=style).
GroupNew ==
  /\ last = NoCall
  /\ \E columns \in ColumnsData, style \in GroupStyles :
       last' = [op |-> "Group.__init__", columns |-> columns, style |-> style,
                out |-> GroupInit(PyStr(<<"g">>), columns, style,
                                  PyNone, PyNone, PyNone)]
  /\ UNCHANGED <<field, request, allowed, phases, uiGroups, fields>>

NextColumns == GroupNew \/ Return

SpecColumns == InitPage /\ [][NextColumns]_vars

\* The Column that stands for a given item: the item when it is a Column,
\* else a Column of that width.
ColumnFor(item) ==
  IF item.t = "Column" THEN item
  ELSE [t |-> "Column", width |-> item, align |-> PyStr(<<"l", "e", "f", "t">>)]

\* C11 as stated: Group accepts a list or a tuple of widths and/or Column
\* instances, and the columns of the group built are Column instances only,
\* one per given column, in the given order. Stated for the groups that are
\* not rendered as tabs.
C11_Original ==
  (last.op = "Group.__init__" /\ last.style = "section2") =>
     /\ last.out.t = "return"
     /\ Len(last.out.v.columns.items) = Len(last.columns.items)
     /\ \A i \in 1..Len(last.columns.items) :
          last.out.v.columns.items[i] = ColumnFor(last.columns.items[i])

----------------------------------------------------------------------------
(* Phases: Phase.addPage, computeNextPrevious, getNextPage, getPreviousPage *)

\* The name of the k-th phase created: 'p1', 'p2', ...
PhaseName(k) == PyStr(<<"p">> \o NatToStr(k))

\* A function given as a show attribute, which returns x.
Lambda(x) == [t |-> "function", does |-> Returned(x)]

\* The pages of the fields, each with the phase it is declared in. In the
\* first phase: 'a' is always shown; 'b' can only be viewed and so can its
\* "edit" button; another page named 'a' is hidden; the function that tells
\* whether the "save" button of 'e' is shown raises an exception. In the
\* second phase: 'c' is hidden by a function; 'd' is shown on every layout
\* by the value 'edit', which is no special value for a page; 'f' is shown.
\* In the third phase: 'g' is shown.
PhasePages ==
  {PageInit(PyStr(S_a), PhaseName(1)),
   [PageInit(PyStr(S_b), PhaseName(1)) EXCEPT
      !.show = PyStr(S_view), !.showEdit = Lambda(PyStr(S_view))],
   [PageInit(PyStr(S_a), PhaseName(1)) EXCEPT !.show = PyBool(FALSE)],
   [PageInit(PyStr(<<"e">>), PhaseName(1)) EXCEPT
      !.showSave = [t |-> "function", does |-> Raised("Exception")]],
   [PageInit(PyStr(<<"c">>), PhaseName(2)) EXCEPT !.show = Lambda(PyNone)],
   [PageInit(PyStr(<<"d">>), PhaseName(2)) EXCEPT !.show = PyStr(S_edit)],
   PageInit(PyStr(<<"f">>), PhaseName(2)),
   PageInit(PyStr(<<"g">>), PhaseName(3))}

PhaseFields ==
  Built({FieldInit(PyNone, <<0, 1>>, PyBool(TRUE), pg, PyNone, PyNone, PyNone) :
           pg \in PhasePages})

\* The names getNextPage and getPreviousPage are asked about.
PhasePageNames == {pg.name : pg \in PhasePages}

\* A phase is created and put at the end of the list of all phases.
NewPhase ==
  /\ last = NoCall
  /\ Len(phases) < MaxPhases
  /\ phases' = Append(phases, PhaseInit(PhaseName(Len(phases) + 1)))
  /\ UNCHANGED <<field, request, allowed, last, uiGroups, fields>>

\* A call of phases[k].addPage(fld, obj, layoutType), for a field of a page
\* declared in that phase. The call is recorded with the phase as it was
\* before.
AddPage ==
  /\ last = NoCall
  /\ \E k \in 1..Len(phases), fld \in PhaseFields,
        layoutType \in {PyStr(S_view), PyStr(S_edit)} :
       LET done == addPage(phases[k], fld, layoutType)
       IN  /\ phases[k].name = fld.page.phase
           /\ phases' = [phases EXCEPT ![k] = done.self]
           /\ last' = [op |-> "addPage", at |-> k, page |-> fld.page,
                       layoutType |-> layoutType, before |-> phases[k],
                       out |-> done.out]
  /\ UNCHANGED <<field, request, allowed, uiGroups, fields>>

\* The navigable Refs: fields of the pages named 'a' and 'e'.
PhaseRefs ==
  {fld \in PhaseFields : fld.page.name \in {PyStr(S_a), PyStr(<<"e">>)}}

\* The objects tied to obj through a Ref: none, or one.
TiedObjects ==
  {<<>>, <<[title |-> PyStr(<<"t">>), url |-> PyStr(<<"u">>)]>>}

\* A call of phases[k].addPageLinks(fld, obj), for a Ref of a page declared
\* in that phase.
AddPageLinks ==
  /\ last = NoCall
  /\ \E k \in 1..Len(phases), fld \in PhaseRefs, tied \in TiedObjects :
       LET done == addPageLinks(phases[k], fld, tied)
       IN  /\ phases[k].name = fld.page.phase
           /\ phases' = [phases EXCEPT ![k] = done.self]
           /\ last' = [op |-> "addPageLinks", at |-> k, page |-> fld.page,
                       before |-> phases[k], out |-> done.out]
  /\ UNCHANGED <<field, request, allowed, uiGroups, fields>>

\* A call of phases[k].computeNextPrevious(allPhases).
ComputeNextPrevious ==
  /\ last = NoCall
  /\ \E k \in 1..Len(phases) :
       /\ phases' = [phases EXCEPT ![k] = computeNextPrevious(@, phases)]
       /\ phases' # phases
  /\ UNCHANGED <<field, request, allowed, last, uiGroups, fields>>

\* A call of phases[k].getNextPage(page).
GetNextPage ==
  /\ last = NoCall
  /\ \E k \in 1..Len(phases), page \in PhasePageNames :
       last' = [op |-> "getNextPage", at |-> k, page |-> page,
                out |-> getNextPage(phases[k], page, phases)]
  /\ UNCHANGED <<field, request, allowed, phases, uiGroups, fields>>

\* A call of phases[k].getPreviousPage(page).
GetPreviousPage ==
  /\ last = NoCall
  /\ \E k \in 1..Len(phases), page \in PhasePageNames :
       last' = [op |-> "getPreviousPage", at |-> k, page |-> page,
                out |-> getPreviousPage(phases[k], page, phases)]
  /\ UNCHANGED <<field, request, allowed, phases, uiGroups, fields>>

NextPhase ==
  NewPhase \/ AddPage \/ AddPageLinks \/ ComputeNextPrevious \/ GetNextPage
  \/ GetPreviousPage \/ Return

SpecPhase == InitPage /\ [][NextPhase]_vars

\* What an attribute of a page gives: the attribute, or what calling it
\* returns when it is a function.
Shows(page, attr) ==
  IF page[attr].t = "function" THEN page[attr].does.v ELSE page[attr]

\* What an attribute of a page tells for a layout: 'view' stands for "on
\* layout 'view' only", any other value stands for itself.
ShowsOn(page, attr, layoutType) ==
  IF Shows(page, attr) = PyStr(<<"v", "i", "e", "w">>)
  THEN PyBool(layoutType.s = <<"v", "i", "e", "w">>)
  ELSE Shows(page, attr)

\* The values that count as false.
Falsy == {PyNone, PyBool(FALSE), PyInt(0), PyStr(<<>>), PyList(<<>>), PyTuple(<<>>)}

\* The page is showable in layout 'view' or in layout 'edit'.
ShowableOnViewOrEdit(page) ==
  \/ ShowsOn(page, "show", PyStr(<<"v", "i", "e", "w">>)) \notin Falsy
  \/ ShowsOn(page, "show", PyStr(<<"e", "d", "i", "t">>)) \notin Falsy

\* The name is known to the phase.
KnownPage(phase, name) ==
  \/ \E i \in 1..Len(phase.pages) : phase.pages[i] = name
  \/ \E i \in 1..Len(phase.hiddenPages) : phase.hiddenPages[i] = name

\* C12: addPage, for a page whose name the phase does not
\* know yet, appends the name to pages and creates its pagesInfo entry
\* (the page, showOnView, showOnEdit, the button flags for the layout,
\* links=None) when the page is showable in layout 'view' or 'edit', and
\* nothing else changes; otherwise it appends the name to hiddenPages and
\* nothing else changes.
C12_Original ==
  (last.op = "addPage" /\ ~KnownPage(last.before, last.page.name)) =>
     LET name == last.page.name
         after == phases[last.at]
     IN  IF ShowableOnViewOrEdit(last.page)
         THEN /\ after.pages = last.before.pages \o <<name>>
              /\ after.hiddenPages = last.before.hiddenPages
              /\ DOMAIN after.pagesInfo = DOMAIN last.before.pagesInfo \cup {name}
              /\ \A n \in DOMAIN last.before.pagesInfo :
                   after.pagesInfo[n] = last.before.pagesInfo[n]
              /\ after.pagesInfo[name].page = last.page
              /\ after.pagesInfo[name].showOnView
                   = ShowsOn(last.page, "show", PyStr(<<"v", "i", "e", "w">>))
              /\ after.pagesInfo[name].showOnEdit
                   = ShowsOn(last.page, "show", PyStr(<<"e", "d", "i", "t">>))
              /\ after.pagesInfo[name].links = PyNone
              /\ \A b \in {"showSave", "showCancel", "showPrevious",
                           "showNext", "showEdit"} :
                   after.pagesInfo[name][b] = ShowsOn(last.page, b, last.layoutType)
         ELSE /\ after.hiddenPages = last.before.hiddenPages \o <<name>>
              /\ after.pages = last.before.pages
              /\ after.pagesInfo = last.before.pagesInfo

\* The names a list holds.
NamesOf(xs) == {xs[i] : i \in 1..Len(xs)}

\* No name occurs twice in pages and hiddenPages taken together.
AtMostOnce(phase) ==
  LET all == phase.pages \o phase.hiddenPages
  IN  \A i, j \in 1..Len(all) : all[i] = all[j] => i = j

\* The keys of pagesInfo are exactly the names listed in pages.
KeysArePages(phase) == DOMAIN phase.pagesInfo = NamesOf(phase.pages)

\* C13: in every phase, after any sequence of addPage calls, every
\* name occurs at most once in pages and hiddenPages together, the two lists
\* are disjoint, the keys of pagesInfo are exactly the names listed in pages,
\* and an addPage for a page already known changes nothing.
C13_Original ==
  /\ \A k \in 1..Len(phases) :
       /\ AtMostOnce(phases[k])
       /\ NamesOf(phases[k].pages) \cap NamesOf(phases[k].hiddenPages) = {}
       /\ KeysArePages(phases[k])
  /\ (last.op = "addPage" /\ KnownPage(last.before, last.page.name)) =>
        phases[last.at] = last.before

\* The call returned the page of that name with the entry the phase has
\* for it in pagesInfo.
GavePage(out, phase, name) ==
  /\ out.t = "return" /\ out.v.t = "tuple" /\ Len(out.v.items) = 2
  /\ out.v.items[1] = name
  /\ name \in DOMAIN phase.pagesInfo
  /\ out.v.items[2] = phase.pagesInfo[name]

\* The call returned (None, None).
GaveNoPage(out) == out = [t |-> "return", v |-> PyTuple(<<PyNone, PyNone>>)]

\* The call gave the page of that name with its entry, or raised KeyError
\* because the phase has no entry for it.
GavePageOrKeyError(out, phase, name) ==
  IF name \in DOMAIN phase.pagesInfo THEN GavePage(out, phase, name)
  ELSE out = [t |-> "raise", exc |-> "KeyError"]

\* Every phase has an entry of pagesInfo for each of its pages.
EveryPageHasInfo == \A k \in 1..Len(phases) : KeysArePages(phases[k])

\* The place of a page in the pages of a phase.
IsPlaceOf(phase, page, i) == i \in 1..Len(phase.pages) /\ phase.pages[i] = page

\* The attributes previousPhase and nextPhase refer to the neighbours in
\* the list of all phases, when they are set.
NeighboursAreAdjacent ==
  \A k \in 1..Len(phases) :
    /\ phases[k].previousPhase \in {PyNone, [t |-> "Phase", at |-> k - 1]}
    /\ phases[k].nextPhase \in {PyNone, [t |-> "Phase", at |-> k + 1]}
    /\ phases[k].previousPhase # PyNone => k > 1
    /\ phases[k].nextPhase # PyNone => k < Len(phases)

\* C14 as stated: for a page of the phase, getNextPage returns the page that
\* follows it with its pagesInfo entry; for the last page, the first page of
\* nextPhase with that phase's entry when a next phase exists, (None, None)
\* when there is none. Stated for phases that have an entry for each page.
C14_Original ==
  (last.op = "getNextPage" /\ EveryPageHasInfo) =>
     \A i \in 1..Len(phases[last.at].pages) :
       IsPlaceOf(phases[last.at], last.page, i) =>
         LET self == phases[last.at]
         IN  IF i < Len(self.pages)
             THEN GavePage(last.out, self, self.pages[i + 1])
             ELSE IF self.nextPhase # PyNone
             THEN /\ Len(phases[last.at + 1].pages) > 0
                  /\ GavePage(last.out, phases[last.at + 1],
                              phases[last.at + 1].pages[1])
             ELSE GaveNoPage(last.out)

\* C14 amended: as stated when the next phase lists a page; when it lists
\* none, getNextPage raises IndexError. Where the page to return has no
\* entry in pagesInfo, getNextPage raises KeyError.
C14_GetNextPage ==
  /\ NeighboursAreAdjacent
  /\ last.op = "getNextPage" =>
       \A i \in 1..Len(phases[last.at].pages) :
         IsPlaceOf(phases[last.at], last.page, i) =>
           LET self == phases[last.at]
           IN  IF i < Len(self.pages)
               THEN GavePageOrKeyError(last.out, self, self.pages[i + 1])
               ELSE IF self.nextPhase # PyNone
               THEN IF Len(phases[last.at + 1].pages) = 0
                    THEN last.out = [t |-> "raise", exc |-> "IndexError"]
                    ELSE GavePageOrKeyError(last.out, phases[last.at + 1],
                                            phases[last.at + 1].pages[1])
               ELSE GaveNoPage(last.out)

\* C14 witness: after 'b', the last page of the first phase, comes 'd', the
\* first of the two pages of the second phase.
C14_Witness ==
  /\ last.op = "getNextPage" /\ last.at = 1 /\ last.page = PyStr(S_b)
  /\ phases[1].pages = <<PyStr(S_a), PyStr(S_b)>>
  /\ Len(phases) = 2 /\ phases[2].pages = <<PyStr(<<"d">>), PyStr(<<"f">>)>>
  /\ GavePage(last.out, phases[2], PyStr(<<"d">>))

\* C15 as stated: for a page of the phase, getPreviousPage returns the page
\* that precedes it with its pagesInfo entry; for the first page, the last
\* page of previousPhase with that phase's entry when a previous phase
\* exists, (None, None) when there is none. Stated for phases that have an
\* entry for each page.
C15_Original ==
  (last.op = "getPreviousPage" /\ EveryPageHasInfo) =>
     \A i \in 1..Len(phases[last.at].pages) :
       IsPlaceOf(phases[last.at], last.page, i) =>
         LET self == phases[last.at]
         IN  IF i > 1
             THEN GavePage(last.out, self, self.pages[i - 1])
             ELSE IF self.previousPhase # PyNone
             THEN /\ Len(phases[last.at - 1].pages) > 0
                  /\ GavePage(last.out, phases[last.at - 1],
                       phases[last.at - 1].pages[Len(phases[last.at - 1].pages)])
             ELSE GaveNoPage(last.out)

\* C15 amended: as stated when the previous phase lists a page; when it
\* lists none, getPreviousPage raises IndexError. Where the page to return
\* has no entry in pagesInfo, getPreviousPage raises KeyError.
C15_GetPreviousPage ==
  last.op = "getPreviousPage" =>
     \A i \in 1..Len(phases[last.at].pages) :
       IsPlaceOf(phases[last.at], last.page, i) =>
         LET self == phases[last.at]
         IN  IF i > 1
             THEN GavePageOrKeyError(last.out, self, self.pages[i - 1])
             ELSE IF self.previousPhase # PyNone
             THEN /\ self.previousPhase = [t |-> "Phase", at |-> last.at - 1]
                  /\ IF Len(phases[last.at - 1].pages) = 0
                     THEN last.out = [t |-> "raise", exc |-> "IndexError"]
                     ELSE GavePageOrKeyError(last.out, phases[last.at - 1],
                            phases[last.at - 1].pages[Len(phases[last.at - 1].pages)])
             ELSE GaveNoPage(last.out)

\* C15 witness: before 'd', the first page of the second phase, comes 'b',
\* the last of the two pages of the first phase.
C15_Witness ==
  /\ last.op = "getPreviousPage" /\ last.at = 2 /\ last.page = PyStr(<<"d">>)
  /\ phases[2].pages = <<PyStr(<<"d">>), PyStr(<<"f">>)>>
  /\ phases[1].pages = <<PyStr(S_a), PyStr(S_b)>>
  /\ GavePage(last.out, phases[1], PyStr(S_b))

----------------------------------------------------------------------------
(* The groups of a page: Group.insertInto and UiGroup.addField *)

\* A group of that name with nb columns, alone or inside a group.
GroupOf(name, nb, outer) ==
  Built({GroupInit(PyStr(name), PyList([i \in 1..nb |-> PyStr(S_100pct)]),
                   "section2", o, PyNone, PyNone) : o \in outer})

\* The groups of the page: 'o' with two columns; 'g' with one column, in
\* 'o'; 'i' with three columns, in 'g'; and another group named 'g', with
\* three columns, in no group.
UiOuterGroups == GroupOf(<<"o">>, 2, {PyNone})
UiMiddleGroups == GroupOf(<<"g">>, 1, UiOuterGroups)
UiPageGroups ==
  UiOuterGroups \cup UiMiddleGroups \cup GroupOf(<<"i">>, 3, UiMiddleGroups)
  \cup GroupOf(<<"g">>, 3, {PyNone})

\* The fields shown in the groups, known by their name, with their colspan.
UiField(name, colspan) == [t |-> "Field", name |-> PyStr(name), colspan |-> colspan]

UiFields == {UiField(<<"f", "1">>, 1), UiField(<<"f", "3">>, 3)}

\* The fields and groups put into a UiGroup so far.
RECURSIVE NbOfElements(_)
NbOfElements(rows) ==
  IF rows = <<>> THEN 0
  ELSE Cardinality({i \in 1..Len(Head(rows)) : Head(rows)[i] # PyStr(<<>>)})
       + NbOfElements(Tail(rows))

\* A call of group.insertInto(fields, uiGroups, page, metaType).
InsertInto ==
  /\ last = NoCall
  /\ \E group \in UiPageGroups :
       LET done == insertInto(group, fields, uiGroups, field.page,
                              PyStr(<<"D", "o", "c">>), FALSE)
       IN  /\ fields' = done.fields
           /\ uiGroups' = done.uiGroups
           /\ last' = [op |-> "insertInto", group |-> group, out |-> done.out,
                       before |-> [fields |-> fields, uiGroups |-> uiGroups]]
  /\ UNCHANGED <<field, request, allowed, phases>>

\* A call of uiGroups[name].addField(fld).
AddField ==
  /\ last = NoCall
  /\ \E name \in DOMAIN uiGroups, fld \in UiFields :
       /\ NbOfElements(uiGroups[name].fields) < MaxCells
       /\ uiGroups' = [uiGroups EXCEPT ![name] = addField(@, fld)]
       /\ last' = [op |-> "addField", name |-> name, fld |-> fld,
                   before |-> uiGroups[name]]
  /\ UNCHANGED <<field, request, allowed, phases, fields>>

NextUi == InsertInto \/ AddField \/ Return

SpecUi == InitPage /\ [][NextUi]_vars

RECURSIVE FilledIn(_)
\* The columns the elements of a row take: the sum of their colspans.
FilledIn(row) ==
  IF Len(row) = 0 THEN 0
  ELSE row[Len(row)].colspan + FilledIn(SubSeq(row, 1, Len(row) - 1))

\* later is row earlier completed with nb empty cells.
IsCompletedBy(later, earlier, nb) ==
  /\ Len(later) = Len(earlier) + nb
  /\ \A i \in 1..Len(earlier) : later[i] = earlier[i]
  /\ \A i \in (Len(earlier) + 1)..Len(later) : later[i] = [t |-> "str", s |-> <<>>]

\* C16: addField appends the field to the last row when the free columns of
\* that row, the number of columns of the group minus the sum of the
\* colspans in the row, are at least the colspan of the field; otherwise it
\* completes the last row with one empty cell per free column and starts a
\* new row that holds the field only. Nothing else changes.
C16_AddField ==
  last.op = "addField" =>
     LET rows == last.before.fields
         after == uiGroups[last.name]
         n == Len(rows)
         free == Len(last.before.columns.items) - FilledIn(rows[n])
     IN  /\ [after EXCEPT !.fields = rows] = last.before
         /\ IF free >= last.fld.colspan
            THEN /\ Len(after.fields) = n
                 /\ \A k \in 1..(n - 1) : after.fields[k] = rows[k]
                 /\ after.fields[n] = rows[n] \o <<last.fld>>
            ELSE /\ Len(after.fields) = n + 1
                 /\ \A k \in 1..(n - 1) : after.fields[k] = rows[k]
                 /\ IsCompletedBy(after.fields[n], rows[n],
                                  IF free > 0 THEN free ELSE 0)
                 /\ after.fields[n + 1] = <<last.fld>>

\* C16 witness: in a group of three columns whose row holds a field of
\* colspan 1, a field of colspan 3 was added: two empty cells complete the
\* row and the field is alone in a new row.
C16_Witness ==
  /\ last.op = "addField" /\ last.name = PyStr(<<"g">>)
  /\ Len(last.before.columns.items) = 3
  /\ last.before.fields = << <<UiField(<<"f", "1">>, 1)>> >>
  /\ uiGroups[last.name].fields =
       << <<UiField(<<"f", "1">>, 1), PyStr(<<>>), PyStr(<<>>)>>,
          <<UiField(<<"f", "3">>, 3)>> >>

\* The UiGroup of that name, as an element of a list or of a row.
UiElement(uis, name) ==
  [t |-> "UiGroup", name |-> name, colspan |-> uis[name].colspan]

\* The places of a list where an element is found.
PlacesInList(xs, x) == {i \in 1..Len(xs) : xs[i] = x}

\* The places (row, column) of the rows of a UiGroup where an element is.
PlacesInRows(rows, x) ==
  {rc \in UNION {{<<r, c>> : c \in 1..Len(rows[r])} : r \in 1..Len(rows)} :
     rows[rc[1]][rc[2]] = x}

\* The group the UiGroup was made of is in no group.
AtTopLevel(ui) == ui.group \in {PyNone, PyStr(<<>>)}

\* The attributes of a UiGroup that no call changes: all but the rows.
Identity(ui) == [ui EXCEPT !.fields = << <<>> >>]

\* C17: over any sequence of insertInto calls on the same list and dict, a
\* UiGroup is created at most once per group name, and a later call for
\* that name returns it and changes nothing; a UiGroup is once in the
\* top-level list exactly when its group is in no group, and is otherwise
\* exactly once in the rows of the UiGroup of the containing group, which
\* exists, and in no other UiGroup.
C17_InsertInto ==
  /\ \A name \in DOMAIN uiGroups :
       LET ui == uiGroups[name]
           elem == UiElement(uiGroups, name)
       IN  /\ ui.name = name
           /\ Cardinality(PlacesInList(fields, elem))
                = IF AtTopLevel(ui) THEN 1 ELSE 0
           /\ \A other \in DOMAIN uiGroups :
                Cardinality(PlacesInRows(uiGroups[other].fields, elem))
                  = IF ~AtTopLevel(ui) /\ other = ui.group.name THEN 1 ELSE 0
           /\ ~AtTopLevel(ui) => ui.group.name \in DOMAIN uiGroups
  /\ last.op = "insertInto" =>
       /\ last.out = UiElement(uiGroups, last.group.name)
       /\ DOMAIN last.before.uiGroups \subseteq DOMAIN uiGroups
       /\ \A name \in DOMAIN last.before.uiGroups :
            Identity(uiGroups[name]) = Identity(last.before.uiGroups[name])
       /\ last.group.name \in DOMAIN last.before.uiGroups =>
            /\ uiGroups = last.before.uiGroups
            /\ fields = last.before.fields
       /\ last.group.name \notin DOMAIN last.before.uiGroups =>
            /\ Identity(uiGroups[last.group.name])
                 = Identity(UiGroupInit(last.group, field.page,
                                        PyStr(<<"D", "o", "c">>), FALSE))

\* C17 witness: group 'i' was inserted first, which inserted 'g' and 'o'
\* too; then insertInto was called for the group 'g' that is in no group,
\* and returned the UiGroup of 'g' that is in 'o', without a change.
C17_Witness ==
  /\ last.op = "insertInto"
  /\ last.group.name = PyStr(<<"g">>) /\ last.group.group = PyNone
  /\ DOMAIN uiGroups = {PyStr(<<"o">>), PyStr(<<"g">>), PyStr(<<"i">>)}
  /\ uiGroups = last.before.uiGroups /\ fields = last.before.fields
  /\ fields = <<UiElement(uiGroups, PyStr(<<"o">>))>>
  /\ uiGroups[PyStr(<<"g">>)].group # PyNone
  /\ PlacesInRows(uiGroups[PyStr(<<"g">>)].fields,
                  UiElement(uiGroups, PyStr(<<"i">>))) = {<<1, 1>>}
  /\ PlacesInRows(uiGroups[PyStr(<<"o">>)].fields,
                  UiElement(uiGroups, PyStr(<<"g">>))) = {<<1, 1>>}

====
